---- MODULE Spec2Model ----
(***************************************************************************)
(* Schedule transformation and lowering of the tensor-expression stages    *)
(* shown in the schedule-primitives, tensorize, autotvm and conv2d         *)
(* tutorials: a compute stage C over a two dimensional domain (m, n) whose *)
(* leaf axes are transformed by split, tile, fuse, reorder and bind, its   *)
(* producer stage B that compute_at attaches to a leaf of C, and the loop  *)
(* nest that lower prints for the schedule.                                *)
(***************************************************************************)
EXTENDS Integers, Sequences, FiniteSets, TLC

\* Bounds of the model: calls applied to one schedule, leaves a stage may reach.
MaxOps == 2
MaxLeaves == 4

\* Inputs: the shapes (m, n) of the op and the factor / nparts arguments of split.
Shapes == {<<3, 2>>, <<2, 4>>, <<4, 3>>, <<1, 3>>}

Factors == {2, 3}

VARIABLES stage, attach, last, nops, err, graph, sched

vars == <<stage, attach, last, nops, err, graph, sched>>

ThreadTags == {"blockIdx.x", "threadIdx.x"}

Range(s) == {s[k] : k \in 1..Len(s)}

\* A split that rounds the quotient down: floordiv(a, b).
FloorDiv(a, b) == a \div b

\* ceil(a / b) as the lowered code prints it: floordiv((a + (b - 1)), b).
CeilDiv(a, b) == (a + b - 1) \div b

(***************************************************************************)
(* The stage of C = te.compute((m, n), lambda i, j: ...): IterVars are in  *)
(* an arena (ivs), the split/fuse history in rels, the loop order in       *)
(* leaves, thread bindings in binds.                                       *)
(***************************************************************************)
IterVar(e, k) == [ext |-> e, kind |-> k]

create_schedule(m, n) ==
    [ivs    |-> <<IterVar(m, "DataPar"), IterVar(n, "DataPar")>>,
     rels   |-> <<>>,
     leaves |-> <<1, 2>>,
     binds  |-> {}]

LeafSet(st) == Range(st.leaves)

Pos(st, ax) == CHOOSE p \in 1..Len(st.leaves) : st.leaves[p] = ax

NoRel == [type |-> "none", parent |-> 0, outer |-> 0, inner |-> 0, fused |-> 0,
          factor |-> 0, nparts |-> 0]

\* A split records the argument it was called with: factor or nparts, the other 0.
SplitRel(p, o, i, f, mode) ==
    [NoRel EXCEPT !.type = "split", !.parent = p, !.outer = o, !.inner = i,
                  !.factor = IF mode = "factor" THEN f ELSE 0,
                  !.nparts = IF mode = "factor" THEN 0 ELSE f]

FuseRel(o, i, f) == [NoRel EXCEPT !.type = "fuse", !.outer = o, !.inner = i, !.fused = f]

\* A replacement that puts the new axes in front of the leaf and keeps the leaf.
ReplaceAtKeep(leaves, p, by) ==
    SubSeq(leaves, 1, p - 1) \o by \o SubSeq(leaves, p, Len(leaves))

\* The leaf list with the leaf at position p replaced by the sequence by.
ReplaceAt(leaves, p, by) ==
    SubSeq(leaves, 1, p - 1) \o by \o SubSeq(leaves, p + 1, Len(leaves))

\* Extents (outer, inner) of split(axis, factor=f) and split(axis, nparts=f).
SplitExtents(E, f, mode) ==
    IF mode = "factor" THEN <<CeilDiv(E, f), f>> ELSE <<f, CeilDiv(E, f)>>

\* The pair of axes split returns.
split_ret(st) == <<Len(st.ivs) + 1, Len(st.ivs) + 2>>

split(st, ax, f, mode) ==
    LET n  == Len(st.ivs)
        ex == SplitExtents(st.ivs[ax].ext, f, mode)
        k  == st.ivs[ax].kind
    IN  [st EXCEPT
           !.ivs    = st.ivs \o <<IterVar(ex[1], k), IterVar(ex[2], k)>>,
           !.rels   = Append(st.rels, SplitRel(ax, n + 1, n + 2, f, mode)),
           !.leaves = ReplaceAt(st.leaves, Pos(st, ax), <<n + 1, n + 2>>)]

\* A fuse that adds the extents of the pair.
FuseExtentSum(eo, ei) == eo + ei

\* Extent of the axis that replaces a fused pair.
FuseExtent(eo, ei) == eo * ei

fuse(st, o, i) ==
    LET n == Len(st.ivs)
    IN  [st EXCEPT
           !.ivs    = Append(st.ivs, IterVar(FuseExtent(st.ivs[o].ext, st.ivs[i].ext), st.ivs[o].kind)),
           !.rels   = Append(st.rels, FuseRel(o, i, n + 1)),
           !.leaves = SubSeq(st.leaves, 1, Pos(st, o) - 1) \o <<n + 1>>
                      \o SubSeq(st.leaves, Pos(st, i) + 1, Len(st.leaves))]

\* A reorder that refills the listed positions from the back of the argument list.
reorder_backwards(st, order) ==
    LET listed == Range(order)
        rank(p) == Cardinality({q \in 1..p : st.leaves[q] \in listed})
    IN  [st EXCEPT !.leaves =
           [p \in 1..Len(st.leaves) |->
              IF st.leaves[p] \in listed THEN order[Len(order) + 1 - rank(p)]
              ELSE st.leaves[p]]]

\* A reorder that moves the listed leaves, in the given order, to the front.
reorder_to_front(st, order) ==
    LET listed == Range(order)
        IsUnlisted(x) == x \notin listed
    IN  [st EXCEPT !.leaves = order \o SelectSeq(st.leaves, IsUnlisted)]

\* reorder(order...): the positions the listed leaves occupy are refilled with
\* the listed leaves in the given order; other leaves stay where they are.
reorder(st, order) ==
    LET listed == Range(order)
        rank(p) == Cardinality({q \in 1..p : st.leaves[q] \in listed})
    IN  [st EXCEPT !.leaves =
           [p \in 1..Len(st.leaves) |->
              IF st.leaves[p] \in listed THEN order[rank(p)] ELSE st.leaves[p]]]

bind(st, ax, tag) == [st EXCEPT !.binds = st.binds \cup {<<ax, tag>>}]

\* A tile that splits both axes and leaves out the reorder.
tile_unordered(st, ax0, ax1, fx, fy) ==
    LET n  == Len(st.ivs)
        e0 == SplitExtents(st.ivs[ax0].ext, fx, "factor")
        e1 == SplitExtents(st.ivs[ax1].ext, fy, "factor")
        p0 == Pos(st, ax0)
        p1 == Pos(st, ax1)
    IN  [st EXCEPT
           !.ivs    = st.ivs \o <<IterVar(e0[1], st.ivs[ax0].kind), IterVar(e0[2], st.ivs[ax0].kind),
                                  IterVar(e1[1], st.ivs[ax1].kind), IterVar(e1[2], st.ivs[ax1].kind)>>,
           !.rels   = st.rels \o <<SplitRel(ax0, n + 1, n + 2, fx, "factor"),
                                   SplitRel(ax1, n + 3, n + 4, fy, "factor")>>,
           !.leaves = IF p0 < p1
                      THEN SubSeq(st.leaves, 1, p0 - 1) \o <<n + 1, n + 2>>
                           \o SubSeq(st.leaves, p0 + 1, p1 - 1) \o <<n + 3, n + 4>>
                           \o SubSeq(st.leaves, p1 + 1, Len(st.leaves))
                      ELSE SubSeq(st.leaves, 1, p1 - 1) \o <<n + 3, n + 4>>
                           \o SubSeq(st.leaves, p1 + 1, p0 - 1) \o <<n + 1, n + 2>>
                           \o SubSeq(st.leaves, p0 + 1, Len(st.leaves))]

\* tile(ax0, ax1, x_factor, y_factor): both axes are split in place and the four
\* slots they then occupy hold (x.outer, y.outer, x.inner, y.inner) in that order.
tile(st, ax0, ax1, fx, fy) ==
    LET n     == Len(st.ivs)
        e0    == SplitExtents(st.ivs[ax0].ext, fx, "factor")
        e1    == SplitExtents(st.ivs[ax1].ext, fy, "factor")
        p0    == Pos(st, ax0)
        p1    == Pos(st, ax1)
        lo    == IF p0 < p1 THEN p0 ELSE p1
        hi    == IF p0 < p1 THEN p1 ELSE p0
        slots == <<n + 1, n + 3, n + 2, n + 4>>
    IN  [st EXCEPT
           !.ivs    = st.ivs \o <<IterVar(e0[1], st.ivs[ax0].kind), IterVar(e0[2], st.ivs[ax0].kind),
                                  IterVar(e1[1], st.ivs[ax1].kind), IterVar(e1[2], st.ivs[ax1].kind)>>,
           !.rels   = st.rels \o <<SplitRel(ax0, n + 1, n + 2, fx, "factor"),
                                   SplitRel(ax1, n + 3, n + 4, fy, "factor")>>,
           !.leaves = [q \in 1..(Len(st.leaves) + 2) |->
                         IF q < lo THEN st.leaves[q]
                         ELSE IF q <= lo + 1 THEN slots[q - lo + 1]
                         ELSE IF q <= hi THEN st.leaves[q - 1]
                         ELSE IF q <= hi + 2 THEN slots[q - hi + 2]
                         ELSE st.leaves[q - 2]]]

\* The four axes tile returns, in the order of its result tuple.
tile_ret(st) == LET n == Len(st.ivs) IN <<n + 1, n + 3, n + 2, n + 4>>

(***************************************************************************)
(* lower: one loop per leaf, outer to inner in leaf order; a bound leaf is *)
(* printed as a thread_extent attribute of the same extent.                *)
(***************************************************************************)
TagOf(st, ax) ==
    IF \E b \in st.binds : b[1] = ax
    THEN (CHOOSE b \in st.binds : b[1] = ax)[2]
    ELSE "none"

\* A lowering that gives a bound axis a single iteration per thread.
LoopOneThread(st, ax) ==
    [var    |-> ax,
     min    |-> 0,
     extent |-> IF TagOf(st, ax) = "none" THEN st.ivs[ax].ext ELSE 1,
     kind   |-> IF TagOf(st, ax) = "none" THEN "for" ELSE "thread_extent",
     thread |-> TagOf(st, ax)]

Loop(st, ax) ==
    [var    |-> ax,
     min    |-> 0,
     extent |-> st.ivs[ax].ext,
     kind   |-> IF TagOf(st, ax) = "none" THEN "for" ELSE "thread_extent",
     thread |-> TagOf(st, ax)]

\* A nest that opens the loops from the last leaf to the first.
LoopNestInnerFirst(st) ==
    [p \in 1..Len(st.leaves) |-> Loop(st, st.leaves[Len(st.leaves) + 1 - p])]

LoopNest(st) == [p \in 1..Len(st.leaves) |-> Loop(st, st.leaves[p])]

RECURSIVE Product(_, _)
Product(nest, p) ==
    IF p > Len(nest) THEN 1 ELSE nest[p].extent * Product(nest, p + 1)

\* Number of iterations of the whole nest, and of the loops nested inside loop p.
TripCount(nest) == Product(nest, 1)

Stride(nest, p) == Product(nest, p + 1)

\* Value of loop p's variable in iteration t of the nest (t counts the
\* iterations of the innermost body in execution order).
LoopVal(nest, t, p) == (t \div Stride(nest, p)) % nest[p].extent

\* An index expression that multiplies the outer part by the outer extent's
\* neighbour off by one: (outer*(factor + 1)) + inner.
SplitIndexWide(o, i, innerExt) == o * (innerExt + 1) + i

\* The index of a split axis from its parts: ((outer*factor) + inner).
SplitIndex(o, i, innerExt) == o * innerExt + i

\* An index recovery with floordiv and floormod exchanged.
FuseIndexSwapped(f, innerExt) == <<f % innerExt, f \div innerExt>>

\* The indices of a fused pair from the fused index: floordiv and floormod by the
\* inner extent.
FuseIndex(f, innerExt) == <<f \div innerExt, f % innerExt>>

\* Index expressions: the value of every IterVar from the leaf values, walking the
\* split/fuse history from the newest relation to the oldest.
RECURSIVE PassUp(_, _, _)
PassUp(st, k, vals) ==
    IF k = 0 THEN vals
    ELSE LET r == st.rels[k]
         IN  PassUp(st, k - 1,
               IF r.type = "split"
               THEN [vals EXCEPT ![r.parent] = SplitIndex(vals[r.outer], vals[r.inner], st.ivs[r.inner].ext)]
               ELSE [vals EXCEPT ![r.outer] = FuseIndex(vals[r.fused], st.ivs[r.inner].ext)[1],
                                 ![r.inner] = FuseIndex(vals[r.fused], st.ivs[r.inner].ext)[2]])

IterVals(st, t) ==
    LET nest == LoopNest(st)
        leafvals == [v \in 1..Len(st.ivs) |->
                       IF v \in LeafSet(st) THEN LoopVal(nest, t, Pos(st, v)) ELSE 0]
    IN  PassUp(st, Len(st.rels), leafvals)

\* A guard that lets the boundary index itself through: parent <= extent.
likely_inclusive(st, vals) ==
    \A k \in 1..Len(st.rels) :
       st.rels[k].type = "split" => vals[st.rels[k].parent] <= st.ivs[st.rels[k].parent].ext

\* The tir.likely guard around the store: every split parent is inside its extent.
likely(st, vals) ==
    \A k \in 1..Len(st.rels) :
       st.rels[k].type = "split" => vals[st.rels[k].parent] < st.ivs[st.rels[k].parent].ext

\* The element the body addresses: the values of the op's two declared axes.
Index(vals) == <<vals[1], vals[2]>>

\* Input data, the producer's element expression (B[i, j] = A[i, j] + 1) and the
\* stage's own (C[i, j] = B[i, j] * 2).
InputA(idx) == 10 * idx[1] + idx[2] + 1

ProducerBody(idx) == InputA(idx) + 1

Body(idx) == ProducerBody(idx) * 2

\* Iterations of the lowered nest whose store executes.
Executed(st) == {t \in 0..(TripCount(LoopNest(st)) - 1) : likely(st, IterVals(st, t))}

\* The stores the lowered program performs: (iteration, element, value).
Stores(st) ==
    {[t |-> t, idx |-> Index(IterVals(st, t)), val |-> Body(Index(IterVals(st, t)))] :
        t \in Executed(st)}

\* The output buffer after the run: element -> value, for the elements written.
Written(st) == {<<s.idx, s.val>> : s \in Stores(st)}

Domain(st) == {<<i, j>> : i \in 0..(st.ivs[1].ext - 1), j \in 0..(st.ivs[2].ext - 1)}

(***************************************************************************)
(* compute_at: the producer's nest is emitted inside the consumer's loop   *)
(* at the attach axis, ahead of the rest of the consumer's nest, and       *)
(* covers the region the consumer reads in that iteration.                 *)
(***************************************************************************)
\* Compute location of a stage: root, attached at an axis of a stage, or inlined.
RootLoc == [kind |-> "root", stage |-> "none", axis |-> 0]

compute_at(target, ax) == [kind |-> "at", stage |-> target, axis |-> ax]

\* A compute_root that clears the attach axis and leaves the stage attached.
compute_root_stale(loc) == [loc EXCEPT !.axis = 0]

compute_root(loc) == RootLoc

compute_inline(loc) == [kind |-> "inline", stage |-> "none", axis |-> 0]

\* An attach loop body that emits the consumer's statement ahead of the producer's.
ConsumerFirst == <<"consumer", "producer">>

\* Statements of the attach loop's body, in the order they are printed.
AttachBody == <<"producer", "consumer">>

StmtPos(name) == CHOOSE p \in 1..Len(AttachBody) : AttachBody[p] = name

\* Consumer iterations that belong to iteration u of the loops down to position pa.
Block(st, pa, u) ==
    LET inner == Stride(LoopNest(st), pa)
    IN  {t \in (u * inner)..(u * inner + inner - 1) : likely(st, IterVals(st, t))}

AttachIters(st, pa) ==
    0..((TripCount(LoopNest(st)) \div Stride(LoopNest(st), pa)) - 1)

\* Elements of the producer the consumer reads in iteration u of the attach loop.
Consumed(st, pa, u) == {Index(IterVals(st, t)) : t \in Block(st, pa, u)}

SetMin(S) == CHOOSE x \in S : \A y \in S : x <= y

SetMax(S) == CHOOSE x \in S : \A y \in S : x >= y

\* The region inferred for the producer: per dimension, the range of the indices read.
Region(R) ==
    IF R = {} THEN {}
    ELSE {<<i, j>> : i \in SetMin({p[1] : p \in R})..SetMax({p[1] : p \in R}),
                     j \in SetMin({p[2] : p \in R})..SetMax({p[2] : p \in R})}

\* Events of the lowered two-stage program when the producer is attached at leaf
\* position pa: at = (attach iteration, statement of the body, step in the statement).
ProducerStores(st, pa) ==
    UNION {{[at |-> <<u, StmtPos("producer"), p[1] * st.ivs[2].ext + p[2]>>,
             kind |-> "store", idx |-> p, val |-> ProducerBody(p)] :
               p \in Region(Consumed(st, pa, u))} :
           u \in AttachIters(st, pa)}

ConsumerLoads(st, pa) ==
    UNION {{[at |-> <<u, StmtPos("consumer"), t>>,
             kind |-> "load", idx |-> Index(IterVals(st, t)),
             val |-> ProducerBody(Index(IterVals(st, t)))] : t \in Block(st, pa, u)} :
           u \in AttachIters(st, pa)}

\* Program order of two events.
Before(a, b) ==
    \/ a.at[1] < b.at[1]
    \/ a.at[1] = b.at[1] /\ a.at[2] < b.at[2]
    \/ a.at[1] = b.at[1] /\ a.at[2] = b.at[2] /\ a.at[3] < b.at[3]

\* The consumer's element expression applied to the value it reads: B[i, j] * 2.
ConsumerExpr(b) == b * 2

\* An inlining that substitutes the consumer's first index only.
InlinedBodyPartial(idx) == ConsumerExpr(ProducerBody(<<idx[1], 0>>))

\* The consumer's body after inlining: the producer's expression with the consumer's
\* indices in place of the producer's axes ((A[i] + 1)*2).
InlinedBody(idx) == ConsumerExpr(ProducerBody(idx))

\* Position of the loop the producer is emitted in: 0 is the top of the program.
AttachPos(st, loc) == IF loc.kind = "at" THEN Pos(st, loc.axis) ELSE 0

\* Value the buffer of B holds at element idx when event e runs: the latest store
\* before e; -1 stands for an element no store has reached.
BufferB(stores, e) ==
    LET ws == {w \in stores : w.idx = e.idx /\ Before(w, e)}
    IN  IF ws = {} THEN -1
        ELSE (CHOOSE w \in ws : \A x \in ws : x = w \/ Before(x, w)).val

\* lower: the loop nest of C, the stores to and loads from the buffer of B, and
\* the elements and values stored to C.
Lower(st, loc) ==
    IF loc.kind = "inline"
    THEN [nest   |-> LoopNest(st),
          stores |-> {},
          loads  |-> {},
          out    |-> {<<Index(IterVals(st, t)), InlinedBody(Index(IterVals(st, t)))>> :
                         t \in Executed(st)}]
    ELSE LET pa == AttachPos(st, loc)
             ws == ProducerStores(st, pa)
         IN  [nest   |-> LoopNest(st),
              stores |-> ws,
              loads  |-> ConsumerLoads(st, pa),
              out    |-> {<<e.idx, ConsumerExpr(BufferB(ws, e))>> : e \in ConsumerLoads(st, pa)}]

(***************************************************************************)
(* Reduction: C = te.compute((M,), lambda j: te.sum(A[k] * B[j, k], axis=k)) *)
(* has a data-parallel axis j (IterVar 1) and a reduce axis k (IterVar 2). *)
(* lower emits the write of the identity ahead of the loop of the first    *)
(* reduce leaf, inside the loops of the leaves before it, in a nest of its *)
(* own over the data-parallel leaves that follow.  tensorize marks a leaf: *)
(* the loops of that leaf and of the leaves after it are replaced by calls *)
(* of the intrinsic.                                                       *)
(***************************************************************************)
create_reduce_schedule(m, l) ==
    [ivs       |-> <<IterVar(m, "DataPar"), IterVar(l, "CommReduce")>>,
     rels      |-> <<>>,
     leaves    |-> <<1, 2>>,
     binds     |-> {},
     tensorize |-> 0]

tensorize(st, ax) == [st EXCEPT !.tensorize = ax]

\* The intrinsic's declared shape matches a region of whole tiles only.
PatternMatches(st) ==
    \A k \in 1..Len(st.rels) :
       st.rels[k].type = "split" =>
          st.ivs[st.rels[k].outer].ext * st.ivs[st.rels[k].inner].ext
             = st.ivs[st.rels[k].parent].ext

ReducePositions(st) == {p \in 1..Len(st.leaves) : st.ivs[st.leaves[p]].kind = "CommReduce"}

\* First leaf position the intrinsic replaces; past the last leaf when the stage is
\* not tensorized.
TensorizePos(st) ==
    IF st.tensorize = 0 THEN Len(st.leaves) + 1 ELSE Pos(st, st.tensorize)

\* The loops lower prints for the stage: the leaves outside the tensorized region.
EmittedLoops(st) == SubSeq(LoopNest(st), 1, TensorizePos(st) - 1)

\* An initialization emitted ahead of the innermost reduce loop.
InitPosInnermost(st) == SetMax(ReducePositions(st))

\* Position of the loop the initialization is emitted ahead of: the first reduce leaf.
InitPos(st) == SetMin(ReducePositions(st))

\* A call emitted in every iteration of the loops the intrinsic replaces.
OuterItersAll(st) == 0..(TripCount(LoopNest(st)) - 1)

\* Iterations of the nest that stand for one trip of the emitted loops: the
\* replaced leaves are at 0.
OuterIters(st) ==
    {t \in 0..(TripCount(LoopNest(st)) - 1) :
        \A p \in TensorizePos(st)..Len(st.leaves) : LoopVal(LoopNest(st), t, p) = 0}

\* Trips of the initialization nest that also run in every trip of the reduce loops.
InitItersEveryTrip(st, u) ==
    {t \in Block(st, InitPos(st) - 1, u) \cap OuterIters(st) :
        LoopVal(LoopNest(st), t, InitPos(st)) = 0}

\* Trips of the initialization nest in iteration u of the loops around it: one per
\* value of the data-parallel leaves after the first reduce leaf (the reduce leaves
\* from there on are not loops of this nest).
InitIters(st, u) ==
    {t \in Block(st, InitPos(st) - 1, u) \cap OuterIters(st) :
        \A p \in ReducePositions(st) : p >= InitPos(st) => LoopVal(LoopNest(st), t, p) = 0}

UpdateIters(st, u) == Block(st, InitPos(st) - 1, u) \cap OuterIters(st)

\* A tensorize that takes the body call as soon as one reduce leaf is replaced.
CoversReductionPartly(st) == \E p \in ReducePositions(st) : p >= TensorizePos(st)

\* The tensorized region includes all the reduce leaves.
CoversReduction(st) == \A p \in ReducePositions(st) : p >= TensorizePos(st)

\* Values of the emitted data-parallel loops in iteration t: the output element of
\* a scalar statement, the output tile of an intrinsic call.
Tile(st, t) ==
    [p \in {q \in 1..(TensorizePos(st) - 1) : q \notin ReducePositions(st)} |->
        LoopVal(LoopNest(st), t, p)]

\* Values of the emitted reduce loops in iteration t.
ReduceTrip(st, t) ==
    [p \in {q \in 1..(TensorizePos(st) - 1) : q \in ReducePositions(st)} |->
        LoopVal(LoopNest(st), t, p)]

\* Statements the lowered reduction executes, in program order by at: "init" and
\* "update" are the scalar statements, "body", "reset" and "update_call" the calls of
\* the intrinsic.
ReduceEvents(st) ==
    IF st.tensorize # 0 /\ CoversReduction(st)
    THEN {[at |-> <<t, 1, 0>>, kind |-> "body", tile |-> Tile(st, t), trip |-> ReduceTrip(st, t),
           elem |-> IterVals(st, t)[1], rk |-> IterVals(st, t)[2]] : t \in OuterIters(st)}
    ELSE UNION {
           {[at |-> <<u, 1, t>>, kind |-> IF st.tensorize = 0 THEN "init" ELSE "reset",
             tile |-> Tile(st, t), trip |-> ReduceTrip(st, t),
             elem |-> IterVals(st, t)[1], rk |-> 0] : t \in InitIters(st, u)}
           \cup
           {[at |-> <<u, 2, t>>, kind |-> IF st.tensorize = 0 THEN "update" ELSE "update_call",
             tile |-> Tile(st, t), trip |-> ReduceTrip(st, t),
             elem |-> IterVals(st, t)[1], rk |-> IterVals(st, t)[2]] : t \in UpdateIters(st, u)} :
           u \in AttachIters(st, InitPos(st) - 1)}

(***************************************************************************)
(* Checked calls.  The schedule holds four stages: B (element-wise, read   *)
(* by C), C (element-wise, the stage whose axes are transformed), D (a     *)
(* reduction over C) and T (an op with two outputs that reads only the     *)
(* placeholder).  A call names its axes by reference (stage, IterVar); it  *)
(* either fails with an error and leaves the schedule as it was, or        *)
(* applies the primitive.                                                  *)
(***************************************************************************)
Stages == {"B", "C", "D", "T"}

\* Stages whose output a stage's body reads.
Inputs(name) == IF name = "C" THEN {"B"} ELSE IF name = "D" THEN {"C"} ELSE {}

NumOutputs(name) == IF name = "T" THEN 2 ELSE 1

IsReduction(name) == name = "D"

\* A dependency test that looks at the direct inputs only.
ConsumesDirectly(target, caller) == caller \in Inputs(target)

\* target reads the output of caller, directly or through other stages.
RECURSIVE Consumes(_, _)
Consumes(target, caller) ==
    \/ caller \in Inputs(target)
    \/ \E x \in Inputs(target) : Consumes(x, caller)

Ref(name, k) == [stage |-> name, iv |-> k]

\* Current leaves of a stage: C's are in st, the other stages keep their two
\* declared axes.
LeavesOf(st, name) == IF name = "C" THEN LeafSet(st) ELSE {1, 2}

\* A leaf test that compares the IterVar's number and not the stage it belongs to.
IsLeafAnyStage(st, name, ref) == ref.iv \in LeavesOf(st, name)

IsLeaf(st, name, ref) == ref.stage = name /\ ref.iv \in LeavesOf(st, name)

Ok(st, loc) == [stage |-> st, attach |-> loc, err |-> "none"]

Fail(st, loc, e) == [stage |-> st, attach |-> loc, err |-> e]

checked_split(st, loc, ref, f, mode) ==
    IF ~IsLeaf(st, "C", ref) THEN Fail(st, loc, "InvalidAxisReference")
    ELSE Ok(split(st, ref.iv, f, mode), loc)

\* A fuse that takes an adjacent pair given inner first and fuses it all the same.
checked_fuse_either_order(st, loc, ro, ri) ==
    IF ~IsLeaf(st, "C", ro) \/ ~IsLeaf(st, "C", ri)
    THEN Fail(st, loc, "InvalidAxisReference")
    ELSE IF Pos(st, ri.iv) = Pos(st, ro.iv) + 1 THEN Ok(fuse(st, ro.iv, ri.iv), loc)
    ELSE IF Pos(st, ro.iv) = Pos(st, ri.iv) + 1 THEN Ok(fuse(st, ri.iv, ro.iv), loc)
    ELSE Fail(st, loc, "NonAdjacentAxes")

checked_fuse(st, loc, ro, ri) ==
    IF ~IsLeaf(st, "C", ro) \/ ~IsLeaf(st, "C", ri)
    THEN Fail(st, loc, "InvalidAxisReference")
    ELSE IF Pos(st, ri.iv) # Pos(st, ro.iv) + 1 THEN Fail(st, loc, "NonAdjacentAxes")
    ELSE Ok(fuse(st, ro.iv, ri.iv), loc)

checked_reorder(st, loc, refs) ==
    IF \E k \in 1..Len(refs) : ~IsLeaf(st, "C", refs[k])
    THEN Fail(st, loc, "InvalidAxisReference")
    ELSE IF \E a, b \in 1..Len(refs) : a # b /\ refs[a] = refs[b]
    THEN Fail(st, loc, "DuplicateAxis")
    ELSE Ok(reorder(st, [k \in 1..Len(refs) |-> refs[k].iv]), loc)

\* A tile that runs its three calls in turn and stops at the one that fails.
checked_tile_stepwise(st, loc, r0, r1, fx, fy) ==
    IF ~IsLeaf(st, "C", r0) THEN Fail(st, loc, "InvalidAxisReference")
    ELSE IF ~IsLeaf(st, "C", r1) \/ r0 = r1
    THEN Fail(split(st, r0.iv, fx, "factor"), loc, "InvalidAxisReference")
    ELSE Ok(tile(st, r0.iv, r1.iv, fx, fy), loc)

checked_tile(st, loc, r0, r1, fx, fy) ==
    IF ~IsLeaf(st, "C", r0) \/ ~IsLeaf(st, "C", r1) \/ r0 = r1
    THEN Fail(st, loc, "InvalidAxisReference")
    ELSE Ok(tile(st, r0.iv, r1.iv, fx, fy), loc)

checked_bind(st, loc, ref, tag) ==
    IF ~IsLeaf(st, "C", ref) THEN Fail(st, loc, "InvalidAxisReference")
    ELSE IF \E b \in st.binds : b[1] = ref.iv \/ b[2] = tag
    THEN Fail(st, loc, "DuplicateBinding")
    ELSE Ok(bind(st, ref.iv, tag), loc)

checked_tensorize(st, loc, ref) ==
    IF ~IsLeaf(st, "C", ref) THEN Fail(st, loc, "InvalidAxisReference")
    ELSE IF ~PatternMatches(st) THEN Fail(st, loc, "PatternMismatch")
    ELSE Ok(tensorize(st, ref.iv), loc)

pragma(st, ax, key) == [st EXCEPT !.pragmas = @ \cup {<<ax, key>>}]

checked_pragma(st, loc, ref, key) ==
    IF ~IsLeaf(st, "C", ref) THEN Fail(st, loc, "InvalidAxisReference")
    ELSE Ok(pragma(st, ref.iv, key), loc)

\* s[caller].compute_at(s[target], axis); loc is the caller's compute location.
checked_compute_at(st, loc, caller, target, ref) ==
    IF ~IsLeaf(st, target, ref) THEN Fail(st, loc, "InvalidAxisReference")
    ELSE IF ~Consumes(target, caller) THEN Fail(st, loc, "NotADependency")
    ELSE Ok(st, compute_at(target, ref.iv))

\* An inline test that looks for a reduction only.
InlinableIfNoReduction(name) == ~IsReduction(name)

Inlinable(name) == NumOutputs(name) = 1 /\ ~IsReduction(name)

checked_compute_inline(st, loc, caller) ==
    IF ~Inlinable(caller) THEN Fail(st, loc, "CannotInline")
    ELSE Ok(st, compute_inline(loc))

checked_compute_root(st, loc, caller) == Ok(st, compute_root(loc))

\* The specifications of a single stage carry no compute graph and no stage list.
NoGraph == [ops |-> <<>>, outputs |-> <<>>, shape |-> <<>>]

NoSchedule == [list |-> <<>>, st |-> <<>>, loc |-> <<>>, scope |-> <<>>, op |-> <<>>]

\* Sequences of k distinct elements of S.
Arrangements(S, k) == {o \in [1..k -> S] : \A a, b \in 1..k : a # b => o[a] # o[b]}

Init ==
    /\ \E sh \in Shapes : stage = create_schedule(sh[1], sh[2])
    /\ attach = RootLoc
    /\ last = "create_schedule"
    /\ nops = 0
    /\ err = "none"
    /\ graph = NoGraph
    /\ sched = NoSchedule

DoSplit ==
    /\ nops < MaxOps
    /\ Len(stage.leaves) < MaxLeaves
    /\ \E ax \in LeafSet(stage), f \in Factors, mode \in {"factor", "nparts"} :
         stage' = split(stage, ax, f, mode)
    /\ last' = "split"
    /\ nops' = nops + 1
    /\ err' = "none"
    /\ UNCHANGED <<graph, sched>>
    /\ UNCHANGED attach

DoFuse ==
    /\ nops < MaxOps
    /\ \E p \in 1..(Len(stage.leaves) - 1) :
         stage' = fuse(stage, stage.leaves[p], stage.leaves[p + 1])
    /\ last' = "fuse"
    /\ nops' = nops + 1
    /\ err' = "none"
    /\ UNCHANGED <<graph, sched>>
    /\ UNCHANGED attach

DoReorder ==
    /\ nops < MaxOps
    /\ \E k \in 1..Len(stage.leaves) : \E order \in Arrangements(LeafSet(stage), k) :
         stage' = reorder(stage, order)
    /\ last' = "reorder"
    /\ nops' = nops + 1
    /\ err' = "none"
    /\ UNCHANGED <<graph, sched>>
    /\ UNCHANGED attach

DoTile ==
    /\ nops < MaxOps
    /\ Len(stage.leaves) + 2 <= MaxLeaves
    /\ \E ax0 \in LeafSet(stage), ax1 \in LeafSet(stage), fx \in Factors, fy \in Factors :
         /\ ax0 # ax1
         /\ stage' = tile(stage, ax0, ax1, fx, fy)
    /\ last' = "tile"
    /\ nops' = nops + 1
    /\ err' = "none"
    /\ UNCHANGED <<graph, sched>>
    /\ UNCHANGED attach

\* A thread tag is bound once in a stage, and an axis to one tag.
DoBind ==
    /\ nops < MaxOps
    /\ \E ax \in LeafSet(stage), tag \in ThreadTags :
         /\ \A b \in stage.binds : b[1] # ax /\ b[2] # tag
         /\ stage' = bind(stage, ax, tag)
    /\ last' = "bind"
    /\ nops' = nops + 1
    /\ err' = "none"
    /\ UNCHANGED <<graph, sched>>
    /\ UNCHANGED attach

DoComputeAt ==
    /\ nops < MaxOps
    /\ \E ax \in LeafSet(stage) : attach' = compute_at("C", ax)
    /\ last' = "compute_at"
    /\ nops' = nops + 1
    /\ err' = "none"
    /\ UNCHANGED <<graph, sched>>
    /\ UNCHANGED stage

DoComputeRoot ==
    /\ nops < MaxOps
    /\ attach' = compute_root(attach)
    /\ last' = "compute_root"
    /\ nops' = nops + 1
    /\ err' = "none"
    /\ UNCHANGED <<graph, sched>>
    /\ UNCHANGED stage

DoComputeInline ==
    /\ nops < MaxOps
    /\ attach' = compute_inline(attach)
    /\ last' = "compute_inline"
    /\ nops' = nops + 1
    /\ err' = "none"
    /\ UNCHANGED <<graph, sched>>
    /\ UNCHANGED stage

Next ==
    \/ DoSplit \/ DoFuse \/ DoReorder \/ DoTile \/ DoBind
    \/ DoComputeAt \/ DoComputeRoot \/ DoComputeInline

Spec == Init /\ [][Next]_vars

\* Shapes (M, L) of the reduction: output extent and reduce extent.
ReduceShapes == {<<2, 4>>, <<4, 2>>, <<3, 2>>, <<2, 3>>}

InitReduce ==
    /\ \E sh \in ReduceShapes : stage = create_reduce_schedule(sh[1], sh[2])
    /\ attach = RootLoc
    /\ last = "create_schedule"
    /\ nops = 0
    /\ err = "none"
    /\ graph = NoGraph
    /\ sched = NoSchedule

\* tensorize is the last call of a schedule.
DoSplitReduce == stage.tensorize = 0 /\ DoSplit

DoReorderReduce == stage.tensorize = 0 /\ DoReorder

DoTensorize ==
    /\ nops <= MaxOps
    /\ stage.tensorize = 0
    /\ PatternMatches(stage)
    /\ \E ax \in LeafSet(stage) : stage' = tensorize(stage, ax)
    /\ last' = "tensorize"
    /\ nops' = nops + 1
    /\ err' = "none"
    /\ UNCHANGED <<graph, sched>>
    /\ UNCHANGED attach

NextReduce == DoSplitReduce \/ DoReorderReduce \/ DoTensorize

SpecReduce == InitReduce /\ [][NextReduce]_vars

\* Shapes of C in the schedules driven through the checked calls.
CallShapes == {<<3, 2>>, <<2, 4>>}

\* Axis references a call may be handed: every IterVar C ever had, leaf or consumed,
\* and the declared axes of the other stages.
Refs(st) ==
    {Ref("C", k) : k \in 1..Len(st.ivs)} \cup {Ref(name, k) : name \in Stages \ {"C"}, k \in {1, 2}}

LeafRefs(st) == {Ref("C", k) : k \in LeafSet(st)}

\* Argument lists of reorder: every list of distinct leaves, and every list of one
\* or two references of any kind.
ReorderArgs(st) ==
    UNION {Arrangements(LeafRefs(st), k) : k \in 1..Len(st.leaves)}
       \cup UNION {[1..k -> Refs(st)] : k \in 1..2}

InitCalls ==
    /\ \E sh \in CallShapes :
          stage = create_schedule(sh[1], sh[2]) @@ [tensorize |-> 0, pragmas |-> {}]
    /\ attach = RootLoc
    /\ last = "create_schedule"
    /\ nops = 0
    /\ err = "none"
    /\ graph = NoGraph
    /\ sched = NoSchedule

\* The schedule after a call that returned r: what r carries, an error included.
Returned(r, name) ==
    /\ stage' = r.stage
    /\ attach' = r.attach
    /\ err' = r.err
    /\ last' = name
    /\ nops' = nops + 1
    /\ UNCHANGED <<graph, sched>>

CallSplit ==
    /\ nops < MaxOps
    /\ Len(stage.leaves) < MaxLeaves
    /\ \E ref \in Refs(stage), f \in Factors, mode \in {"factor", "nparts"} :
          Returned(checked_split(stage, attach, ref, f, mode), "split")

CallFuse ==
    /\ nops < MaxOps
    /\ \E ro \in Refs(stage), ri \in Refs(stage) :
          Returned(checked_fuse(stage, attach, ro, ri), "fuse")

CallReorder ==
    /\ nops < MaxOps
    /\ \E refs \in ReorderArgs(stage) :
          Returned(checked_reorder(stage, attach, refs), "reorder")

CallTile ==
    /\ nops < MaxOps
    /\ Len(stage.leaves) + 2 <= MaxLeaves
    /\ \E r0 \in Refs(stage), r1 \in Refs(stage), fx \in Factors, fy \in Factors :
          Returned(checked_tile(stage, attach, r0, r1, fx, fy), "tile")

CallBind ==
    /\ nops < MaxOps
    /\ \E ref \in Refs(stage), tag \in ThreadTags :
          Returned(checked_bind(stage, attach, ref, tag), "bind")

CallTensorize ==
    /\ nops < MaxOps
    /\ \E ref \in Refs(stage) :
          Returned(checked_tensorize(stage, attach, ref), "tensorize")

CallPragma ==
    /\ nops < MaxOps
    /\ \E ref \in Refs(stage) :
          Returned(checked_pragma(stage, attach, ref, "import_llvm"), "pragma")

\* attach is the compute location of B: the calls that move a stage are B's.
\* compute_inline is also tried on the reduction D and on the two-output op T, whose
\* own location is root throughout and is not part of attach.
CallComputeAt ==
    /\ nops < MaxOps
    /\ \E target \in Stages, ref \in Refs(stage) :
          Returned(checked_compute_at(stage, attach, "B", target, ref), "compute_at")

CallComputeInline ==
    /\ nops < MaxOps
    /\ \E caller \in {"B", "D", "T"} :
          LET r == checked_compute_inline(stage, IF caller = "B" THEN attach ELSE RootLoc, caller)
          IN  Returned([r EXCEPT !.attach = IF caller = "B" THEN r.attach ELSE attach],
                       "compute_inline")

CallComputeRoot ==
    /\ nops < MaxOps
    /\ Returned(checked_compute_root(stage, attach, "B"), "compute_root")

NextCalls ==
    \/ CallSplit \/ CallFuse \/ CallReorder \/ CallTile \/ CallBind
    \/ CallTensorize \/ CallPragma
    \/ CallComputeAt \/ CallComputeInline \/ CallComputeRoot

SpecCalls == InitCalls /\ [][NextCalls]_vars

(***************************************************************************)
(* Compute graphs and schedules of several stages.  A tensor is an output  *)
(* slot (op, index) of an op; an op reads a list of tensors.  The graph is *)
(* the one of the tuple-inputs tutorial, B0, B1 = compute((m, n), (A0 + 2, *)
(* A0 * 3)) and C = A1 + B0, with a reduction D over C and B1 on top.  A   *)
(* schedule holds the stage list, and per stage its axes, compute          *)
(* location, memory scope and the op it computes.                          *)
(***************************************************************************)
MaxCalls == 2

Tensor(op, k) == <<op, k>>

\* ndim is the number of declared (data-parallel) axes of the op's output.
Placeholder == [kind |-> "placeholder", reads |-> <<>>, nout |-> 1, ndim |-> 2, body |-> "input"]

ComputeOp(reads, nout, ndim, body) ==
    [kind |-> "compute", reads |-> reads, nout |-> nout, ndim |-> ndim, body |-> body]

\* A reduction with one data-parallel axis and one reduce axis: D[i] = sum over k.
ReduceOp(reads, body) ==
    [kind |-> "reduce", reads |-> reads, nout |-> 1, ndim |-> 1, body |-> body]

GraphOps ==
    [name \in {"A0", "A1", "B", "C", "D"} |->
       CASE name = "A0" -> Placeholder
         [] name = "A1" -> Placeholder
         [] name = "B"  -> ComputeOp(<<Tensor("A0", 0)>>, 2, 2, "B")
         [] name = "C"  -> ComputeOp(<<Tensor("A1", 0), Tensor("B", 0)>>, 1, 2, "C")
         [] name = "D"  -> ReduceOp(<<Tensor("C", 0), Tensor("B", 1)>>, "D")]

\* Output lists create_schedule is called with, and shapes (m, n) of the tensors.
GraphOutputs ==
    {<<Tensor("C", 0)>>, <<Tensor("B", 0), Tensor("B", 1)>>, <<Tensor("D", 0)>>,
     <<Tensor("B", 1), Tensor("C", 0)>>}

GraphShapes == {<<2, 2>>, <<2, 3>>}

\* Ops whose tensors an op reads, in the order its body names them.
Producers(ops, name) == [k \in 1..Len(ops[name].reads) |-> ops[name].reads[k][1]]

\* A traversal that does not remember the ops it has been to.
RECURSIVE PostDFSRevisit(_, _, _)
PostDFSRevisit(ops, todo, done) ==
    IF todo = <<>> THEN done
    ELSE PostDFSRevisit(ops, Tail(todo),
            Append(PostDFSRevisit(ops, Producers(ops, Head(todo)), done), Head(todo)))

\* Post-order depth-first traversal from the ops in todo along the producer edges:
\* an op is listed after the ops it reads, and once.
RECURSIVE PostDFS(_, _, _)
PostDFS(ops, todo, done) ==
    IF todo = <<>> THEN done
    ELSE IF Head(todo) \in Range(done) THEN PostDFS(ops, Tail(todo), done)
    ELSE PostDFS(ops, Tail(todo),
            Append(PostDFS(ops, Producers(ops, Head(todo)), done), Head(todo)))

\* The stage of an op as create_schedule makes it: the declared axes in declared
\* order, the data-parallel ones before the reduce axis; a placeholder has no loops.
DefaultStage(op, shape) ==
    IF op.kind = "placeholder" THEN [ivs |-> <<>>, rels |-> <<>>, leaves |-> <<>>, binds |-> {}]
    ELSE IF op.kind = "reduce" THEN create_reduce_schedule(shape[1], shape[2])
    ELSE IF op.ndim = 1
    THEN [ivs |-> <<IterVar(shape[1], "DataPar")>>, rels |-> <<>>, leaves |-> <<1>>, binds |-> {}]
    ELSE create_schedule(shape[1], shape[2])

\* te.create_schedule(outputs) on graph g.
CreateSchedule(g) ==
    LET list  == PostDFS(g.ops, [k \in 1..Len(g.outputs) |-> g.outputs[k][1]], <<>>)
        names == Range(list)
    IN  [list  |-> list,
         st    |-> [name \in names |-> DefaultStage(g.ops[name], g.shape)],
         loc   |-> [name \in names |-> RootLoc],
         scope |-> [name \in names |-> "global"],
         op    |-> [name \in names |-> g.ops[name]]]

\* s[T] for a tensor T: the stage of the op T is an output of.
StageOf(t) == t[1]

StageNames(s) == Range(s.list)

\* Stages that have loops: every stage but the placeholders'.
ComputeStages(s) == {name \in StageNames(s) : s.op[name].kind # "placeholder"}

\* Tensors a script can index the schedule with: the outputs of its compute ops.
SchedTensors(s) ==
    UNION {{Tensor(name, k) : k \in 0..(s.op[name].nout - 1)} : name \in ComputeStages(s)}

\* Stages whose output the body of stage name reads.
ReadStages(s, name) == {s.op[name].reads[k][1] : k \in 1..Len(s.op[name].reads)}

\* Stage target reads the output of stage caller, directly or through other stages.
RECURSIVE ConsumesIn(_, _, _)
ConsumesIn(s, target, caller) ==
    \/ caller \in ReadStages(s, target)
    \/ \E x \in ReadStages(s, target) : ConsumesIn(s, x, caller)

\* s[caller].compute_at(s[target], ax) with ax a leaf of target: refused unless
\* target reads caller's output, directly or through other stages.
sched_compute_at(s, caller, target, ax) ==
    IF ~ConsumesIn(s, target, caller) THEN [sched |-> s, err |-> "NotADependency"]
    ELSE [sched |-> [s EXCEPT !.loc[caller] = compute_at(target, ax)], err |-> "none"]

\* Name of the tensor cache_write(T, scope) returns: T's name, a dot, the scope.
CacheName(name, scope) ==
    CASE name = "C" /\ scope = "global" -> "C.global"
      [] name = "C" /\ scope = "local"  -> "C.local"
      [] name = "D" /\ scope = "global" -> "D.global"
      [] name = "D" /\ scope = "local"  -> "D.local"

MemoryScopes == {"global", "local"}

InsertAt(list, pos, x) == SubSeq(list, 1, pos - 1) \o <<x>> \o SubSeq(list, pos, Len(list))

\* The op T's stage computes after cache_write: a copy of the cache tensor over T's
\* declared axes.
CopyOp(op, from) == ComputeOp(<<Tensor(from, 0)>>, 1, op.ndim, "copy")

\* A cache stage that is given the copy and leaves the body with T.
cache_write_swapped(s, name, scope, pos, shape) ==
    LET cn == CacheName(name, scope)
    IN  [list  |-> InsertAt(s.list, pos, cn),
         st    |-> (cn :> DefaultStage(CopyOp(s.op[name], name), shape)) @@ s.st,
         loc   |-> (cn :> RootLoc) @@ s.loc,
         scope |-> (cn :> scope) @@ s.scope,
         op    |-> (cn :> CopyOp(s.op[name], name)) @@ s.op]

\* s.cache_write(T, scope): a new stage for the cache tensor, which takes over T's
\* body with its reduce axis, is put into the stage list at position pos; T's stage
\* becomes a copy from the cache tensor.
cache_write(s, name, scope, pos, shape) ==
    LET cn == CacheName(name, scope)
    IN  [list  |-> InsertAt(s.list, pos, cn),
         st    |-> (cn :> DefaultStage(s.op[name], shape))
                     @@ [s.st EXCEPT ![name] = DefaultStage(CopyOp(s.op[name], cn), shape)],
         loc   |-> (cn :> RootLoc) @@ s.loc,
         scope |-> (cn :> scope) @@ s.scope,
         op    |-> (cn :> s.op[name]) @@ [s.op EXCEPT ![name] = CopyOp(s.op[name], cn)]]

\* Stages cache_write is called on: single-output compute ops of the graph that have
\* no cache stage yet, whose axes are as create_schedule left them, and that no
\* stage has been attached to.
Cacheable(s) ==
    {name \in ComputeStages(s) \cap {"C", "D"} :
        /\ s.op[name].body # "copy"
        /\ \A x \in ComputeStages(s) : ~(s.loc[x].kind = "at" /\ s.loc[x].stage = name)
        /\ s.st[name].rels = <<>>
        /\ s.st[name].binds = {}
        /\ s.st[name].leaves = [k \in 1..Len(s.st[name].ivs) |-> k]}

InitGraph ==
    /\ \E outs \in GraphOutputs, sh \in GraphShapes :
          graph = [ops |-> GraphOps, outputs |-> outs, shape |-> sh]
    /\ sched = CreateSchedule(graph)
    /\ stage = sched.st[StageOf(graph.outputs[1])]
    /\ attach = sched.loc[StageOf(graph.outputs[1])]
    /\ last = "create_schedule"
    /\ nops = 0
    /\ err = "none"

\* The state after a call on stage name that left the schedule s2 and error e;
\* stage and attach show the stage the call was made on.
Called(s2, name, e, what) ==
    /\ sched' = s2
    /\ stage' = s2.st[name]
    /\ attach' = s2.loc[name]
    /\ err' = e
    /\ last' = what
    /\ nops' = nops + 1
    /\ UNCHANGED graph

GSplit ==
    /\ nops < MaxCalls
    /\ \E t \in SchedTensors(sched) :
          /\ Len(sched.st[StageOf(t)].leaves) < MaxLeaves
          /\ \E ax \in LeafSet(sched.st[StageOf(t)]), f \in Factors :
                Called([sched EXCEPT !.st[StageOf(t)] = split(@, ax, f, "factor")],
                       StageOf(t), "none", "split")

GFuse ==
    /\ nops < MaxCalls
    /\ \E t \in SchedTensors(sched) :
          LET st == sched.st[StageOf(t)]
          IN  \E p \in 1..(Len(st.leaves) - 1) :
                 /\ st.ivs[st.leaves[p]].kind = st.ivs[st.leaves[p + 1]].kind
                 /\ Called([sched EXCEPT !.st[StageOf(t)] = fuse(@, st.leaves[p], st.leaves[p + 1])],
                           StageOf(t), "none", "fuse")

GReorder ==
    /\ nops < MaxCalls
    /\ \E t \in SchedTensors(sched) :
          \E order \in Arrangements(LeafSet(sched.st[StageOf(t)]), 2) :
             Called([sched EXCEPT !.st[StageOf(t)] = reorder(@, order)],
                    StageOf(t), "none", "reorder")

GComputeAt ==
    /\ nops < MaxCalls
    /\ \E t \in SchedTensors(sched), target \in ComputeStages(sched) :
          \E ax \in LeafSet(sched.st[target]) :
             LET r == sched_compute_at(sched, StageOf(t), target, ax)
             IN  Called(r.sched, StageOf(t), r.err, "compute_at")

GComputeRoot ==
    /\ nops < MaxCalls
    /\ \E t \in SchedTensors(sched) :
          Called([sched EXCEPT !.loc[StageOf(t)] = compute_root(@)],
                 StageOf(t), "none", "compute_root")

GCacheWrite ==
    /\ nops < MaxCalls
    /\ \E name \in Cacheable(sched), scope \in MemoryScopes, pos \in 1..(Len(sched.list) + 1) :
          Called(cache_write(sched, name, scope, pos, graph.shape),
                 CacheName(name, scope), "none", "cache_write")


(***************************************************************************)
(* lower on a schedule of several stages.  The stages at root are emitted  *)
(* one nest after the other in a topological order: a stage is visited     *)
(* once every stage it reads, and every stage the stages attached inside   *)
(* it read, has been emitted; among the stages that are ready the first of *)
(* the stage list is taken.  An attached stage is emitted inside the nest  *)
(* of the stage it is attached to.                                         *)
(***************************************************************************)
Attached(s) == {x \in ComputeStages(s) : s.loc[x].kind = "at"}

\* Attachments that name an axis which is not a leaf of the stage they name.
Dangling(s) ==
    {x \in Attached(s) :
        \/ s.loc[x].stage \notin StageNames(s)
        \/ s.loc[x].axis \notin LeafSet(s.st[s.loc[x].stage])}

\* The stage at root whose nest holds the statements of stage x.
RECURSIVE GroupRoot(_, _)
GroupRoot(s, x) == IF s.loc[x].kind = "at" THEN GroupRoot(s, s.loc[x].stage) ELSE x

RootStages(s) == {x \in ComputeStages(s) : s.loc[x].kind = "root"}

\* Root stages whose nests must come before the nest of root stage r.
GroupDeps(s, r) ==
    {GroupRoot(s, p) :
        p \in UNION {ReadStages(s, x) \cap ComputeStages(s) :
                        x \in {y \in ComputeStages(s) : GroupRoot(s, y) = r}}} \ {r}

\* A visit that emits the root stages in the order of the stage list.
RECURSIVE VisitAsListed(_, _)
VisitAsListed(s, done) ==
    LET rest == {p \in 1..Len(s.list) : s.list[p] \in RootStages(s) \ Range(done)}
    IN  IF rest = {} THEN done ELSE VisitAsListed(s, Append(done, s.list[SetMin(rest)]))

RECURSIVE Visit(_, _)
Visit(s, done) ==
    LET ready == {p \in 1..Len(s.list) :
                     /\ s.list[p] \in RootStages(s) \ Range(done)
                     /\ GroupDeps(s, s.list[p]) \subseteq Range(done)}
    IN  IF ready = {} THEN done ELSE Visit(s, Append(done, s.list[SetMin(ready)]))

\* Root stages in the order lower emits their nests.
EmitOrder(s) == Visit(s, <<>>)

\* lower fails on an attachment it cannot place and on attachments that leave no
\* order in which every stage comes after the stages it reads.
LowerError(s) ==
    IF Dangling(s) # {} THEN "UnresolvedBoundsError"
    ELSE IF Range(EmitOrder(s)) # RootStages(s) THEN "ConflictingAttachmentError"
    ELSE "none"

\* Number of the nest, in emission order, that holds the statements of stage x.
BlockOf(s, x) ==
    LET order == EmitOrder(s)
        r     == GroupRoot(s, x)
    IN  CHOOSE b \in 1..Len(order) : order[b] = r

\* Number of axes of the iteration domain of an op: a reduction over k of a 2-D
\* input iterates (i, k).
DomainRank(op) == IF op.kind = "reduce" THEN 2 ELSE op.ndim

\* Element of its output the body of stage name writes in iteration t of its nest,
\* and element of its inputs it reads there: a reduction D[i] reads element (i, k).
OutElem(s, name, t) ==
    LET v == IterVals(s.st[name], t)
    IN  IF s.op[name].ndim = 1 THEN <<v[1], 0>> ELSE <<v[1], v[2]>>

ReadElem(s, name, t) ==
    LET v == IterVals(s.st[name], t)
    IN  IF DomainRank(s.op[name]) = 1
        THEN <<v[1], 0>> ELSE <<v[1], v[2]>>

\* Tensors of compute stages the body of stage name reads.
ReadTensors(s, name) ==
    {s.op[name].reads[k] : k \in {j \in 1..Len(s.op[name].reads) :
                                     s.op[name].reads[j][1] \in ComputeStages(s)}}

\* Stores of a root stage that writes its first output only.
RootStoresFirstOutput(s, name) ==
    LET b == BlockOf(s, name)
    IN  {[block |-> b, iter |-> <<t>>, kind |-> "store",
          tensor |-> Tensor(name, 0), elem |-> OutElem(s, name, t)] :
            t \in Executed(s.st[name])}

\* Stores of a root stage: every iteration of its nest stores to each output of
\* the op.
RootStores(s, name) ==
    LET b == BlockOf(s, name)
    IN  UNION {{[block |-> b, iter |-> <<t>>, kind |-> "store",
                 tensor |-> Tensor(name, k), elem |-> OutElem(s, name, t)] :
                   k \in 0..(s.op[name].nout - 1)} :
               t \in Executed(s.st[name])}

RootLoads(s, name) ==
    LET b     == BlockOf(s, name)
        reads == ReadTensors(s, name)
    IN  UNION {{[block |-> b, iter |-> <<t>>, kind |-> "load",
                 tensor |-> r, elem |-> ReadElem(s, name, t)] : r \in reads} :
               t \in Executed(s.st[name])}

\* Stores of a stage attached at a leaf of a root stage that reads it: in every
\* iteration of the attach loop, one store to each output for every element of
\* the region the consumer reads there.
AttachedStores(s, name) ==
    LET target == s.loc[name].stage
        b      == BlockOf(s, target)
    IN  {[block |-> b, iter |-> <<e.at[1], e.at[3]>>, kind |-> "store",
          tensor |-> Tensor(name, k), elem |-> e.idx] :
            e \in ProducerStores(s.st[target], Pos(s.st[target], s.loc[name].axis)),
            k \in 0..(s.op[name].nout - 1)}

\* Attached stages whose statements the model lays out: attached to a root stage
\* that reads them.
PlacedAttached(s) ==
    {x \in Attached(s) \ Dangling(s) :
        /\ s.loc[x].stage \in RootStages(s)
        /\ x \in ReadStages(s, s.loc[x].stage)
        /\ DomainRank(s.op[s.loc[x].stage]) = 2}

\* lower(s): the order of the nests, the nest of every root stage, and the stores
\* and loads of the lowered program.
lower(s) ==
    [order  |-> EmitOrder(s),
     nests  |-> [x \in RootStages(s) |-> LoopNest(s.st[x])],
     stores |-> UNION {RootStores(s, x) : x \in RootStages(s)}
                   \cup UNION {AttachedStores(s, x) : x \in PlacedAttached(s)},
     loads  |-> UNION {RootLoads(s, x) : x \in RootStages(s)}]

\* A lower that sorts the schedule's stage list into the order it emits.
GLowerInPlace ==
    /\ nops < MaxCalls
    /\ LET isInput(x) == x \notin RootStages(sched)
       IN  Called([sched EXCEPT !.list = SelectSeq(sched.list, isInput) \o EmitOrder(sched)],
                  StageOf(graph.outputs[1]), LowerError(sched), "lower")

\* tvm.lower(s, args): the schedule is read and left as it is.
GLower ==
    /\ nops < MaxCalls
    /\ Called(sched, StageOf(graph.outputs[1]), LowerError(sched), "lower")

\* A create_schedule that hands back the schedule already made for the outputs.
GCreateScheduleCached ==
    /\ nops < MaxCalls
    /\ Called(sched, StageOf(graph.outputs[1]), "none", "create_schedule")

GCreateSchedule ==
    /\ nops < MaxCalls
    /\ Called(CreateSchedule(graph), StageOf(graph.outputs[1]), "none", "create_schedule")

NextGraph ==
    \/ GSplit \/ GFuse \/ GReorder
    \/ GComputeAt \/ GComputeRoot \/ GCacheWrite
    \/ GCreateSchedule \/ GLower

SpecGraph == InitGraph /\ [][NextGraph]_vars

(***************************************************************************)
(* Properties                                                              *)
(***************************************************************************)
SplitRels(st) == {k \in 1..Len(st.rels) : st.rels[k].type = "split"}

FuseRels(st) == {k \in 1..Len(st.rels) : st.rels[k].type = "fuse"}

\* Some split of the stage has a factor that does not divide its parent's extent.
Padded(st) ==
    \E k \in SplitRels(st) :
       st.ivs[st.rels[k].outer].ext * st.ivs[st.rels[k].inner].ext
          > st.ivs[st.rels[k].parent].ext

\* C1: after any sequence of split, fuse, reorder and tile the lowered nest runs the
\* body exactly once for every point of the op's declared domain and for no other
\* point.
C1_ExactlyOnce ==
    LET S == Stores(stage)
    IN  /\ \A p \in Domain(stage) : Cardinality({s \in S : s.idx = p}) = 1
        /\ \A s \in S : s.idx \in Domain(stage)

C1_Witness ==
    /\ last = "fuse"
    /\ Padded(stage)
    /\ TripCount(LoopNest(stage)) > Cardinality(Domain(stage))

\* C2: split replaces the axis by (outer, inner) with ceil-division extents: with
\* factor f the inner extent is f and the outer the least q with q*f >= E; with
\* nparts p the outer extent is p and the inner the least q with q*p >= E. For
\* E = 100, f = 32 that is (4, 32), and split(factor = i) and split(nparts = o)
\* agree when o*i = E.
C2_SplitExtents ==
    /\ \A k \in SplitRels(stage) :
         LET r  == stage.rels[k]
             E  == stage.ivs[r.parent].ext
             eo == stage.ivs[r.outer].ext
             ei == stage.ivs[r.inner].ext
         IN  IF r.factor > 0
             THEN ei = r.factor /\ eo * r.factor >= E /\ (eo - 1) * r.factor < E
             ELSE eo = r.nparts /\ ei * r.nparts >= E /\ (ei - 1) * r.nparts < E
    /\ nops < MaxOps =>
         \A ax \in LeafSet(stage), f \in Factors, mode \in {"factor", "nparts"} :
            LET s1 == split(stage, ax, f, mode)
                p  == Pos(stage, ax)
            IN  /\ Len(s1.leaves) = Len(stage.leaves) + 1
                /\ <<s1.leaves[p], s1.leaves[p + 1]>> = split_ret(stage)
                /\ \A q \in 1..Len(stage.leaves) :
                      /\ q < p => s1.leaves[q] = stage.leaves[q]
                      /\ q > p => s1.leaves[q + 1] = stage.leaves[q]
    /\ SplitExtents(100, 32, "factor") = <<4, 32>>
    /\ \A o \in 1..6, i \in 1..6 :
          /\ SplitExtents(o * i, i, "factor") = <<o, i>>
          /\ SplitExtents(o * i, o, "nparts") = <<o, i>>

C2_Witness == last = "split" /\ Padded(stage)

\* C3: no iteration whose reconstructed index outer*factor + inner reaches the
\* parent's extent executes the store, whatever was done to the split's outputs
\* afterwards (fuse, reorder, bind).
C3_NoOutOfBoundsStore ==
    \A t \in Executed(stage) :
       LET v == IterVals(stage, t)
       IN  /\ \A k \in SplitRels(stage) :
                LET r == stage.rels[k]
                IN  v[r.outer] * stage.ivs[r.inner].ext + v[r.inner] < stage.ivs[r.parent].ext
           /\ Index(v) \in Domain(stage)

C3_Witness ==
    /\ Padded(stage)
    /\ last \in {"reorder", "bind"}
    /\ Executed(stage) # 0..(TripCount(LoopNest(stage)) - 1)

\* C4: fusing the two axes a split produced gives one axis of the original extent,
\* padded up to the next multiple of the factor (of nparts for an nparts split) when
\* that does not divide the extent.
C4_SplitThenFuse ==
    \A kf \in FuseRels(stage), ks \in SplitRels(stage) :
       LET fr == stage.rels[kf]
           sr == stage.rels[ks]
           E  == stage.ivs[sr.parent].ext
           F  == stage.ivs[fr.fused].ext
           d  == IF sr.factor > 0 THEN sr.factor ELSE sr.nparts
       IN  (fr.outer = sr.outer /\ fr.inner = sr.inner) =>
              /\ F % d = 0
              /\ F >= E
              /\ F < E + d
              /\ (E % d = 0 => F = E)

C4_Witness ==
    /\ last = "fuse"
    /\ \E kf \in FuseRels(stage), ks \in SplitRels(stage) :
          /\ stage.rels[kf].outer = stage.rels[ks].outer
          /\ stage.rels[kf].inner = stage.rels[ks].inner
          /\ stage.ivs[stage.rels[kf].fused].ext > stage.ivs[stage.rels[ks].parent].ext

\* C5: fuse replaces the two axes by one of extent outer*inner, and floordiv /
\* floormod by the inner extent map the fused indices one-to-one onto the pairs
\* (outer, inner).
C5_FuseBijection ==
    /\ \A k \in FuseRels(stage) :
         LET r  == stage.rels[k]
             eo == stage.ivs[r.outer].ext
             ei == stage.ivs[r.inner].ext
             ef == stage.ivs[r.fused].ext
         IN  /\ ef = eo * ei
             /\ \A o \in 0..(eo - 1), i \in 0..(ei - 1) : FuseIndex(o * ei + i, ei) = <<o, i>>
             /\ {FuseIndex(f, ei) : f \in 0..(ef - 1)} = (0..(eo - 1)) \X (0..(ei - 1))
             /\ \A t \in 0..(TripCount(LoopNest(stage)) - 1) :
                   LET v == IterVals(stage, t)
                   IN  v[r.fused] = v[r.outer] * ei + v[r.inner]
    /\ nops < MaxOps =>
         \A p \in 1..(Len(stage.leaves) - 1) :
            LET s1 == fuse(stage, stage.leaves[p], stage.leaves[p + 1])
            IN  s1.leaves = SubSeq(stage.leaves, 1, p - 1) \o <<Len(stage.ivs) + 1>>
                            \o SubSeq(stage.leaves, p + 2, Len(stage.leaves))

C5_Witness ==
    /\ last = "fuse"
    /\ \E k \in FuseRels(stage) :
          /\ stage.ivs[stage.rels[k].outer].ext > 1
          /\ stage.ivs[stage.rels[k].inner].ext > 1
          /\ stage.ivs[stage.rels[k].outer].ext # stage.ivs[stage.rels[k].inner].ext

\* The leaf list xs with the permutation pi of its positions applied.
Permute(xs, pi) == [p \in 1..Len(xs) |-> xs[pi[p]]]

InversePerm(pi) == [p \in DOMAIN pi |-> CHOOSE q \in DOMAIN pi : pi[q] = p]

\* C6: reorder with a permutation of the leaves and then with its inverse restores
\* the leaf order, and no reorder changes the set of leaves.
C6_ReorderBijection ==
    nops < MaxOps =>
       LET L == Len(stage.leaves)
       IN  /\ \A pi \in Arrangements(1..L, L) :
                LET s1 == reorder(stage, Permute(stage.leaves, pi))
                    s2 == reorder(s1, Permute(s1.leaves, InversePerm(pi)))
                IN  /\ s1.leaves = Permute(stage.leaves, pi)
                    /\ s2.leaves = stage.leaves
           /\ \A k \in 1..L : \A order \in Arrangements(LeafSet(stage), k) :
                /\ LeafSet(reorder(stage, order)) = LeafSet(stage)
                /\ Len(reorder(stage, order).leaves) = L

C6_Witness ==
    /\ last = "reorder"
    /\ Len(stage.leaves) = 3
    /\ stage.leaves[1] > stage.leaves[2]

\* C7: reorder with a proper subset of the leaves puts the listed axes, in the order
\* given, into the positions listed axes occupied; every other leaf keeps its
\* position.
C7_ReorderSubset ==
    nops < MaxOps =>
       \A k \in 1..(Len(stage.leaves) - 1) : \A order \in Arrangements(LeafSet(stage), k) :
          LET s1     == reorder(stage, order)
              listed == Range(order)
              IsListed(x) == x \in listed
          IN  /\ \A p \in 1..Len(stage.leaves) :
                    /\ stage.leaves[p] \notin listed => s1.leaves[p] = stage.leaves[p]
                    /\ stage.leaves[p] \in listed => s1.leaves[p] \in listed
              /\ SelectSeq(s1.leaves, IsListed) = order
              /\ [s1 EXCEPT !.leaves = stage.leaves] = stage

\* A state a reorder of two of three leaves reaches: the first split's outer axis
\* and the undivided axis have changed places around the inner axis.
C7_Witness ==
    /\ last = "reorder"
    /\ stage.leaves = <<2, 4, 3>>

\* C8: tile(ax0, ax1, x_factor, y_factor) leaves the stage in the state reached by
\* split(ax0, x_factor); split(ax1, y_factor); reorder(outer0, outer1, inner0,
\* inner1), and returns those four axes in that order.
C8_TileIsSplitSplitReorder ==
    nops < MaxOps =>
       \A ax0 \in LeafSet(stage), ax1 \in LeafSet(stage), fx \in Factors, fy \in Factors :
          ax0 # ax1 =>
             LET s1 == split(stage, ax0, fx, "factor")
                 x  == split_ret(stage)
                 s2 == split(s1, ax1, fy, "factor")
                 y  == split_ret(s1)
                 s3 == reorder(s2, <<x[1], y[1], x[2], y[2]>>)
             IN  /\ tile(stage, ax0, ax1, fx, fy) = s3
                 /\ tile_ret(stage) = <<x[1], y[1], x[2], y[2]>>

C8_Witness ==
    /\ last = "tile"
    /\ nops = 1
    /\ Len(stage.leaves) = 4

\* C9: bind changes only the annotation of the axis: leaf list, leaf order, extents,
\* history and compute location stay, the bound axis becomes a thread index over
\* the same extent, and the lowered program stores the same elements with the same
\* values.
C9_BindOnlyAnnotates ==
    [][last' = "bind" =>
         /\ stage'.leaves = stage.leaves
         /\ stage'.ivs = stage.ivs
         /\ stage'.rels = stage.rels
         /\ attach' = attach
         /\ \E ax \in LeafSet(stage), tag \in ThreadTags :
               /\ stage'.binds = stage.binds \cup {<<ax, tag>>}
               /\ <<ax, tag>> \notin stage.binds
               /\ LoopNest(stage')[Pos(stage, ax)] =
                     [LoopNest(stage)[Pos(stage, ax)] EXCEPT !.kind = "thread_extent",
                                                             !.thread = tag]
               /\ \A p \in 1..Len(stage.leaves) :
                     p # Pos(stage, ax) => LoopNest(stage')[p] = LoopNest(stage)[p]
         /\ Written(stage') = Written(stage)
         /\ Written(stage') = {<<p, Body(p)>> : p \in Domain(stage)}]_vars

C9_Witness ==
    /\ last = "bind"
    /\ Padded(stage)
    /\ stage.binds # {}

\* C10: with the producer attached at a leaf of the consumer, every element the
\* consumer reads in an iteration of the attach loop is stored by the producer
\* earlier in that same iteration, and the producer stores, in that iteration, only
\* elements of the region (the range per dimension) the consumer reads in it.
AttachedAtLeaf == attach.kind = "at" /\ attach.axis \in LeafSet(stage)

C10_ComputeAt ==
    AttachedAtLeaf =>
       LET pa     == Pos(stage, attach.axis)
           stores == ProducerStores(stage, pa)
           loads  == ConsumerLoads(stage, pa)
       IN  /\ \A e \in loads :
                \E w \in stores :
                   /\ w.idx = e.idx
                   /\ w.val = e.val
                   /\ w.at[1] = e.at[1]
                   /\ Before(w, e)
           /\ \A w \in stores :
                /\ w.idx \in Domain(stage)
                /\ w.idx \in Region({e.idx : e \in {x \in loads : x.at[1] = w.at[1]}})
           /\ {e.idx : e \in loads} = Domain(stage)

C10_Witness ==
    /\ AttachedAtLeaf
    /\ last = "compute_at"
    /\ Padded(stage)
    /\ Pos(stage, attach.axis) < Len(stage.leaves)

\* C11: compute_root after compute_at puts the stage back at root, and lower then
\* gives the program of a schedule on which compute_at was never called.
C11_ComputeRootUndoes ==
    [][(last' = "compute_root" /\ attach.kind = "at") =>
          /\ attach' = RootLoc
          /\ stage' = stage
          /\ Lower(stage', attach') = Lower(stage, RootLoc)]_vars

C11_Witness ==
    /\ last = "compute_root"
    /\ nops = MaxOps
    /\ attach.kind = "root"

\* C12: with the producer inlined the lowered program has no store to and no load
\* from the producer's buffer, the consumer stores the producer's expression at the
\* consumer's own indices, and its output equals that of the lowering without
\* inlining.
C12_InlineEquivalent ==
    attach.kind = "inline" =>
       LET inl == Lower(stage, attach)
           ref == Lower(stage, RootLoc)
       IN  /\ inl.stores = {}
           /\ inl.loads = {}
           /\ ref.stores # {}
           /\ inl.nest = ref.nest
           /\ inl.out = ref.out
           /\ inl.out = {<<p, (InputA(p) + 1) * 2>> : p \in Domain(stage)}

C12_Witness ==
    /\ last = "compute_inline"
    /\ Padded(stage)

\* C13: in the lowering of a reduction that is not tensorized, under every leaf
\* order reached by split and reorder, each output element is written with the
\* identity exactly once, before every accumulation into it, and is accumulated
\* exactly once for each point of the reduction domain.
C13_InitOncePerElement ==
    stage.tensorize = 0 =>
       LET ev      == ReduceEvents(stage)
           inits   == {e \in ev : e.kind = "init"}
           updates == {e \in ev : e.kind = "update"}
       IN  /\ ev = inits \cup updates
           /\ \A j \in 0..(stage.ivs[1].ext - 1) :
                 /\ Cardinality({e \in inits : e.elem = j}) = 1
                 /\ \A i \in inits, w \in updates :
                       (i.elem = j /\ w.elem = j) => Before(i, w)
                 /\ \A k \in 0..(stage.ivs[2].ext - 1) :
                       Cardinality({w \in updates : w.elem = j /\ w.rk = k}) = 1
           /\ \A e \in ev : /\ e.elem \in 0..(stage.ivs[1].ext - 1)
                            /\ e.rk \in 0..(stage.ivs[2].ext - 1)

\* A reduce leaf encloses a data-parallel leaf and the reduce axis is split.
C13_Witness ==
    /\ stage.tensorize = 0
    /\ last = "reorder"
    /\ Cardinality(ReducePositions(stage)) = 2
    /\ 1 \in ReducePositions(stage)
    /\ Len(stage.leaves) \notin ReducePositions(stage)

\* C14: for a tensorized stage lower prints no loop for the marked leaf or any leaf
\* after it; when every reduce leaf is inside the tensorized region the region is
\* one body call per trip of the remaining loops and nothing else; when a reduce
\* leaf lies outside, the calls are reduce_reset and reduce_update and never body.
C14_TensorizeCalls ==
    stage.tensorize # 0 =>
       LET ev    == ReduceEvents(stage)
           tp    == Pos(stage, stage.tensorize)
           outer == {stage.leaves[p] : p \in 1..(tp - 1)}
           trips == Product(SubSeq(LoopNest(stage), 1, tp - 1), 1)
       IN  /\ {lp.var : lp \in Range(EmittedLoops(stage))} = outer
           /\ Len(EmittedLoops(stage)) = tp - 1
           /\ \A e \in ev : e.kind \in {"body", "reset", "update_call"}
           /\ IF \A ax \in outer : stage.ivs[ax].kind # "CommReduce"
              THEN /\ \A e \in ev : e.kind = "body"
                   /\ Cardinality(ev) = trips
              ELSE /\ \A e \in ev : e.kind # "body"
                   /\ \E e \in ev : e.kind = "reset"
                   /\ Cardinality({e \in ev : e.kind = "update_call"}) = trips

C14_Witness ==
    /\ stage.tensorize # 0
    /\ CoversReduction(stage)
    /\ Cardinality(ReducePositions(stage)) = 2
    /\ Pos(stage, stage.tensorize) > 1

\* The reduce axis is split and the stage tensorized with the inner part inside and
\* the outer part outside the tensorized region.
SplitReduction(st) ==
    /\ st.tensorize # 0
    /\ \E k \in 1..Len(st.rels) :
          /\ st.rels[k].type = "split"
          /\ st.ivs[st.rels[k].parent].kind = "CommReduce"
          /\ st.rels[k].outer \in LeafSet(st)
          /\ st.rels[k].inner \in LeafSet(st)
          /\ Pos(st, st.rels[k].outer) < Pos(st, st.tensorize)
          /\ Pos(st, st.rels[k].inner) >= Pos(st, st.tensorize)

\* Value combinations of the reduce loops that remain outside the tensorized region.
OuterReduceTrips(st) ==
    LET ps == {p \in ReducePositions(st) : p < Pos(st, st.tensorize)}
    IN  {f \in [ps -> 0..SetMax({st.ivs[st.leaves[p]].ext : p \in ps})] :
            \A p \in ps : f[p] < st.ivs[st.leaves[p]].ext}

\* C15: with the reduce axis split and only its inner part tensorized, every output
\* tile gets exactly one reset call, ahead of every update call of the tile, and
\* exactly one update call for each iteration of the outer reduce loop.
C15_ResetThenUpdates ==
    SplitReduction(stage) =>
       LET ev      == ReduceEvents(stage)
           resets  == {e \in ev : e.kind = "reset"}
           updates == {e \in ev : e.kind = "update_call"}
           tiles   == {e.tile : e \in ev}
       IN  /\ ev = resets \cup updates
           /\ \A tl \in tiles :
                 /\ Cardinality({e \in resets : e.tile = tl}) = 1
                 /\ \A r \in resets, w \in updates :
                       (r.tile = tl /\ w.tile = tl) => Before(r, w)
                 /\ \A o \in OuterReduceTrips(stage) :
                       Cardinality({w \in updates : w.tile = tl /\ w.trip = o}) = 1
                 /\ \A w \in updates : w.trip \in OuterReduceTrips(stage)

\* The tensorized leaf is a data-parallel leaf inside the outer reduce loop, with a
\* data-parallel loop left outside: several tiles, several updates per tile.
C15_Witness ==
    /\ SplitReduction(stage)
    /\ last = "tensorize"
    /\ Cardinality({e.tile : e \in ReduceEvents(stage)}) > 1
    /\ Cardinality(OuterReduceTrips(stage)) > 1

\* C16: a call that fails leaves the schedule as it was before the call: leaf list,
\* relation history, bindings and annotations of the stage and the compute
\* location; a tile whose second axis is invalid does not leave the first one split.
C16_FailureLeavesSchedule ==
    [][err' # "none" => (stage' = stage /\ attach' = attach)]_vars

C16_Witness ==
    /\ last = "tile"
    /\ err = "InvalidAxisReference"
    /\ Len(stage.rels) = 1

\* ref does not name a current leaf of the stage called name.
NotALeaf(st, name, ref) ==
    \/ ref.stage # name
    \/ name = "C" /\ ref.iv \notin Range(st.leaves)
    \/ name # "C" /\ ref.iv \notin {1, 2}

\* C17: split, fuse, reorder, tile, bind, tensorize, pragma and compute_at fail with
\* InvalidAxisReference when an axis they are given is not a current leaf of the
\* target stage: consumed by an earlier split or fuse, or an axis of another stage.
C17_InvalidAxisReference ==
    \A ref \in Refs(stage) :
       /\ NotALeaf(stage, "C", ref) =>
            /\ \A f \in Factors, mode \in {"factor", "nparts"} :
                  checked_split(stage, attach, ref, f, mode).err = "InvalidAxisReference"
            /\ \A other \in Refs(stage) :
                  /\ checked_fuse(stage, attach, ref, other).err = "InvalidAxisReference"
                  /\ checked_fuse(stage, attach, other, ref).err = "InvalidAxisReference"
                  /\ checked_reorder(stage, attach, <<ref, other>>).err = "InvalidAxisReference"
                  /\ checked_reorder(stage, attach, <<other, ref>>).err = "InvalidAxisReference"
                  /\ \A fx \in Factors, fy \in Factors :
                        /\ checked_tile(stage, attach, ref, other, fx, fy).err = "InvalidAxisReference"
                        /\ checked_tile(stage, attach, other, ref, fx, fy).err = "InvalidAxisReference"
            /\ checked_reorder(stage, attach, <<ref>>).err = "InvalidAxisReference"
            /\ \A tag \in ThreadTags :
                  checked_bind(stage, attach, ref, tag).err = "InvalidAxisReference"
            /\ checked_tensorize(stage, attach, ref).err = "InvalidAxisReference"
            /\ checked_pragma(stage, attach, ref, "import_llvm").err = "InvalidAxisReference"
       /\ \A caller \in Stages, target \in Stages :
            NotALeaf(stage, target, ref) =>
               checked_compute_at(stage, attach, caller, target, ref).err = "InvalidAxisReference"

\* A call was refused for an axis after a split or fuse had consumed one.
C17_Witness ==
    /\ err = "InvalidAxisReference"
    /\ last \in {"split", "fuse", "reorder", "bind", "tensorize", "pragma", "compute_at"}
    /\ stage.rels # <<>>

\* The two references name current leaves of C, outer directly before inner.
AdjacentLeaves(st, ro, ri) ==
    /\ ro.stage = "C" /\ ri.stage = "C"
    /\ \E p \in 1..(Len(st.leaves) - 1) : st.leaves[p] = ro.iv /\ st.leaves[p + 1] = ri.iv

\* C18 as stated: fuse succeeds only for two current leaves with outer directly
\* before inner, and every other call fails with NonAdjacentAxes.
C18_AsStated ==
    \A ro \in Refs(stage), ri \in Refs(stage) :
       IF AdjacentLeaves(stage, ro, ri)
       THEN checked_fuse(stage, attach, ro, ri).err = "none"
       ELSE checked_fuse(stage, attach, ro, ri).err = "NonAdjacentAxes"

\* C18: fuse succeeds only for two current leaves with outer directly before inner;
\* two current leaves placed otherwise fail with NonAdjacentAxes, and an argument
\* that is not a current leaf fails with InvalidAxisReference.
C18_FuseAdjacency ==
    \A ro \in Refs(stage), ri \in Refs(stage) :
       LET r == checked_fuse(stage, attach, ro, ri)
       IN  IF AdjacentLeaves(stage, ro, ri)
           THEN r.err = "none" /\ r.stage.leaves # stage.leaves
           ELSE /\ r.err # "none"
                /\ r.stage = stage
                /\ IF NotALeaf(stage, "C", ro) \/ NotALeaf(stage, "C", ri)
                   THEN r.err = "InvalidAxisReference"
                   ELSE r.err = "NonAdjacentAxes"

C18_Witness ==
    /\ last = "fuse"
    /\ err = "NonAdjacentAxes"
    /\ Len(stage.leaves) >= 3

\* The pairs (target, caller) in which target reads caller's output, directly (C
\* reads B, D reads C) or through C (D and B).
DependsOn == {<<"C", "B">>, <<"D", "C">>, <<"D", "B">>}

C20_InlineRefused ==
    \A caller \in Stages :
       LET r == checked_compute_inline(stage, attach, caller)
       IN  IF NumOutputs(caller) > 1 \/ IsReduction(caller)
           THEN r.err # "none" /\ r.attach = attach /\ r.stage = stage
           ELSE r.err = "none" /\ r.attach.kind = "inline" /\ r.stage = stage

C20_Witness ==
    /\ last = "compute_inline"
    /\ err = "CannotInline"
    /\ attach.kind = "at"

\* Relations of the history that consume IterVar v: the split whose parent it is,
\* the fuse whose outer or inner it is.
ConsumedBy(st, v) ==
    {k \in 1..Len(st.rels) :
        \/ st.rels[k].type = "split" /\ st.rels[k].parent = v
        \/ st.rels[k].type = "fuse" /\ (st.rels[k].outer = v \/ st.rels[k].inner = v)}

\* IterVars relation k created.
ProducedBy(st, k) ==
    IF st.rels[k].type = "split" THEN {st.rels[k].outer, st.rels[k].inner}
    ELSE {st.rels[k].fused}

\* The value of IterVar v follows from the values of the current leaves: v is a
\* leaf, or the IterVars made from it by the relation that consumed it do.
RECURSIVE Determined(_, _)
Determined(st, v) ==
    \/ v \in LeafSet(st)
    \/ \E k \in ConsumedBy(st, v) : \A w \in ProducedBy(st, k) : Determined(st, w)

\* C28: the IterVar history of a stage is a strict producer/consumer chain: every
\* IterVar is a current leaf and consumed by nothing, or is no leaf and consumed by
\* exactly one split or fuse; the leaves are pairwise distinct; every split has
\* added one leaf and every fuse removed one; and both declared axes are determined
\* by the current leaves.
C28_IterVarChain ==
    /\ \A v \in 1..Len(stage.ivs) :
          IF v \in LeafSet(stage) THEN ConsumedBy(stage, v) = {}
          ELSE Cardinality(ConsumedBy(stage, v)) = 1
    /\ \A p, q \in 1..Len(stage.leaves) : p # q => stage.leaves[p] # stage.leaves[q]
    /\ Len(stage.leaves) = 2 + Cardinality(SplitRels(stage)) - Cardinality(FuseRels(stage))
    /\ \A k \in 1..Len(stage.rels) : \A w \in ProducedBy(stage, k) :
          /\ \A v \in 1..Len(stage.ivs) : k \in ConsumedBy(stage, v) => v < w
          /\ \A j \in 1..Len(stage.rels) : j # k => w \notin ProducedBy(stage, j)
    /\ Determined(stage, 1)
    /\ Determined(stage, 2)

\* An axis a split produced has been consumed by a fuse, and the stage has a leaf
\* of each origin.
C28_Witness ==
    /\ \E kf \in FuseRels(stage), ks \in SplitRels(stage) :
          /\ stage.rels[kf].outer = stage.rels[ks].inner
          /\ stage.rels[kf].inner \notin ProducedBy(stage, ks)
    /\ Len(stage.leaves) = 2

\* Values of the leaves, in leaf order, in iteration t of the stage's nest.
LeafVals(st, t) == [p \in 1..Len(st.leaves) |-> LoopVal(LoopNest(st), t, p)]

\* a comes before b in the order in which nested loops run: the outermost position
\* where they differ is smaller in a.
LexLess(a, b) ==
    \E p \in 1..Len(a) : a[p] < b[p] /\ \A q \in 1..(p - 1) : a[q] = b[q]

\* C24: the nest of a root stage has one loop per current leaf, over 0..extent,
\* nested outer to inner in leaf order (the iterations run through the leaf values
\* in lexicographic order, every combination once).  For an untransformed schedule
\* the loops are the declared axes in declared order, data-parallel axes before
\* reduce axes: an element-wise op of shape (m, n) lowers to loop i over 0..m
\* around loop j over 0..n with one store per iteration, to element (i, j).
C24_OneLoopPerLeaf ==
    /\ Len(LoopNest(stage)) = Len(stage.leaves)
    /\ \A p \in 1..Len(stage.leaves) :
          /\ LoopNest(stage)[p].var = stage.leaves[p]
          /\ LoopNest(stage)[p].min = 0
          /\ LoopNest(stage)[p].extent = stage.ivs[stage.leaves[p]].ext
    /\ \A t \in 0..(TripCount(LoopNest(stage)) - 2) :
          LexLess(LeafVals(stage, t), LeafVals(stage, t + 1))
    /\ \A p \in 1..Len(stage.leaves), t \in 0..(TripCount(LoopNest(stage)) - 1) :
          LeafVals(stage, t)[p] \in 0..(stage.ivs[stage.leaves[p]].ext - 1)
    /\ nops = 0 =>
          LET m == stage.ivs[1].ext
              n == stage.ivs[2].ext
          IN  /\ [p \in 1..2 |-> LoopNest(stage)[p].var] = <<1, 2>>
              /\ [p \in 1..2 |-> LoopNest(stage)[p].extent] = <<m, n>>
              /\ TripCount(LoopNest(stage)) = m * n
              /\ \A t \in 0..(m * n - 1) :
                    {s.idx : s \in {x \in Stores(stage) : x.t = t}}
                       = {<<LeafVals(stage, t)[1], LeafVals(stage, t)[2]>>}
              /\ Cardinality(Stores(stage)) = m * n
    /\ \A sh \in ReduceShapes :
          LET st == create_reduce_schedule(sh[1], sh[2])
          IN  /\ [p \in 1..2 |-> LoopNest(st)[p].extent] = <<sh[1], sh[2]>>
              /\ \A p, q \in 1..Len(st.leaves) :
                    (p < q /\ st.ivs[st.leaves[q]].kind = "DataPar")
                       => st.ivs[st.leaves[p]].kind = "DataPar"
              /\ \E q \in 1..Len(st.leaves) : st.ivs[st.leaves[q]].kind = "CommReduce"

\* The untransformed schedule of an op with more than one row and column.
C24_Witness ==
    /\ nops = 0
    /\ last = "create_schedule"
    /\ stage.ivs[1].ext > 1
    /\ stage.ivs[2].ext > stage.ivs[1].ext
    /\ Cardinality(Stores(stage)) = stage.ivs[1].ext * stage.ivs[2].ext

\* Points of the loops left around the intrinsic call: one value per emitted loop.
OuterPoints(st) ==
    {x \in [1..(TensorizePos(st) - 1) -> 0..SetMax({0} \cup {st.ivs[v].ext : v \in LeafSet(st)})] :
        \A p \in 1..(TensorizePos(st) - 1) : x[p] < LoopNest(st)[p].extent}

\* C30: when the tensorized region holds every reduce leaf, the lowered nest has,
\* for each point of the leaves outside the tensorized axis, exactly one call of the
\* intrinsic's body, and no initialization store, no update statement and no reset
\* or update call: nothing but the body writes the output tile.
C30_BodyOnly ==
    (stage.tensorize # 0 /\ CoversReduction(stage)) =>
       LET ev == ReduceEvents(stage)
       IN  /\ \A e \in ev : e.kind = "body"
           /\ \A x \in OuterPoints(stage) :
                 Cardinality({e \in ev : e.tile = x}) = 1
           /\ \A e \in ev : e.tile \in OuterPoints(stage)
           /\ Cardinality(ev) = Cardinality(OuterPoints(stage))

\* The data-parallel axis is split and tensorize replaces its inner part and the
\* whole reduce axis: the call is left inside the loop of the outer part.
C30_Witness ==
    /\ last = "tensorize"
    /\ CoversReduction(stage)
    /\ Cardinality(ReducePositions(stage)) = 1
    /\ Cardinality(OuterPoints(stage)) > 1
    /\ \E k \in SplitRels(stage) :
          /\ stage.rels[k].parent = 1
          /\ stage.tensorize = stage.rels[k].inner

\* Ops reachable backward from the ops in S along the producer edges.
RECURSIVE ReachableOps(_, _)
ReachableOps(ops, S) ==
    LET T == S \cup UNION {Range(Producers(ops, x)) : x \in S}
    IN  IF T = S THEN S ELSE ReachableOps(ops, T)

OutputOps(g) == {g.outputs[k][1] : k \in 1..Len(g.outputs)}

\* C21: create_schedule(outputs) makes exactly one stage for every op reachable
\* backward from the outputs along the producer edges and none for an op that is
\* not reachable; every stage it makes is at root and has memory scope "global".
C21_OneStagePerReachableOp ==
    last = "create_schedule" =>
        LET reach == ReachableOps(graph.ops, OutputOps(graph))
        IN  /\ \A name \in DOMAIN graph.ops :
                  Cardinality({p \in 1..Len(sched.list) : sched.list[p] = name})
                      = IF name \in reach THEN 1 ELSE 0
            /\ StageNames(sched) = reach
            /\ DOMAIN sched.st = reach
            /\ \A name \in reach :
                  /\ sched.loc[name] = RootLoc
                  /\ sched.scope[name] = "global"
                  /\ sched.op[name] = graph.ops[name]

\* create_schedule called again on outputs B1 and C: B is reached as an output and
\* as the producer of C, and D is not reached.
C21_Witness ==
    /\ last = "create_schedule"
    /\ nops > 0
    /\ graph.outputs = <<Tensor("B", 1), Tensor("C", 0)>>
    /\ "B" \in StageNames(sched)
    /\ "D" \notin StageNames(sched)

C23_LowerPure ==
    [][/\ last' = "lower" =>
            /\ sched' = sched
            /\ graph' = graph
            /\ (last = "lower" =>
                   /\ err' = err
                   /\ err = "none" => lower(sched') = lower(sched))
       /\ (last = "lower" /\ last' = "split") =>
            \E t \in SchedTensors(sched) :
               \E ax \in LeafSet(sched.st[StageOf(t)]), f \in Factors :
                  sched' = [sched EXCEPT !.st[StageOf(t)] = split(@, ax, f, "factor")]
       /\ (last = "lower" /\ last' = "reorder") =>
            \E t \in SchedTensors(sched) :
               \E order \in Arrangements(LeafSet(sched.st[StageOf(t)]), 2) :
                  sched' = [sched EXCEPT !.st[StageOf(t)] = reorder(@, order)]]_vars

\* A schedule of two nests with a split stage lowered.
C23_Witness ==
    /\ last = "lower"
    /\ nops = MaxCalls
    /\ err = "none"
    /\ Len(EmitOrder(sched)) > 1
    /\ \E name \in ComputeStages(sched) : sched.st[name].rels # <<>>

\* Position of stage x in the stage list.
ListPos(s, x) == CHOOSE p \in 1..Len(s.list) : s.list[p] = x

\* C25: whatever the order of the stage list, a lowering that succeeds emits the
\* root stages in a topological order: the nest that holds a stage comes after the
\* nest of every stage it reads that is not in the same nest, and every element a
\* root stage loads from a tensor computed at root is stored in an earlier nest.
C25_TopologicalEmit ==
    LowerError(sched) = "none" =>
        /\ Range(EmitOrder(sched)) = RootStages(sched)
        /\ \A x \in ComputeStages(sched) :
              \A y \in ReadStages(sched, x) \cap ComputeStages(sched) :
                 GroupRoot(sched, y) # GroupRoot(sched, x) => BlockOf(sched, y) < BlockOf(sched, x)
        /\ LET low == lower(sched)
               roots == RootStages(sched)
           IN  \A ld \in low.loads :
                  StageOf(ld.tensor) \in roots =>
                     \E w \in low.stores :
                        /\ w.tensor = ld.tensor
                        /\ w.elem = ld.elem
                        /\ w.block < ld.block

\* A schedule lowered whose stage list has a stage before a stage it reads.
C25_Witness ==
    /\ last = "lower"
    /\ err = "none"
    /\ \E x \in RootStages(sched) :
          \E y \in ReadStages(sched, x) \cap RootStages(sched) :
             /\ ListPos(sched, x) < ListPos(sched, y)
             /\ BlockOf(sched, y) < BlockOf(sched, x)

\* Value of element e of a placeholder.
InputVal(name, e) == (IF name = "A0" THEN 1 ELSE 5) + 3 * e[1] + e[2]

\* Value the compute definitions of schedule s give element e of tensor t: the body
\* of the op applied to the values of the tensors it reads; a reduction sums over
\* the l elements of row e[1].
RECURSIVE Value(_, _, _, _)
RECURSIVE RowSum(_, _, _, _, _)
Value(s, shape, t, e) ==
    LET op == s.op[t[1]]
    IN  CASE op.body = "input" -> InputVal(t[1], e)
          [] op.body = "B"     -> IF t[2] = 0 THEN Value(s, shape, op.reads[1], e) + 2
                                              ELSE Value(s, shape, op.reads[1], e) * 3
          [] op.body = "C"     -> Value(s, shape, op.reads[1], e) + Value(s, shape, op.reads[2], e)
          [] op.body = "D"     -> RowSum(s, shape, op, e[1], shape[2])
          [] op.body = "copy"  -> Value(s, shape, op.reads[1], e)

RowSum(s, shape, op, i, n) ==
    IF n = 0 THEN 0
    ELSE RowSum(s, shape, op, i, n - 1)
            + Value(s, shape, op.reads[1], <<i, n - 1>>) * Value(s, shape, op.reads[2], <<i, n - 1>>)

\* Elements of the output of an op over the graph's shape.
Elements(op, shape) ==
    IF op.ndim = 1 THEN {<<i, 0>> : i \in 0..(shape[1] - 1)}
    ELSE (0..(shape[1] - 1)) \X (0..(shape[2] - 1))

CacheNames == {CacheName(name, scope) : name \in {"C", "D"}, scope \in MemoryScopes}

\* C26: cache_write(T, scope) adds exactly one stage; the cache stage has T's body
\* and T's axes, the reduce axis included; T's stage becomes a copy of the cache
\* tensor over T's data-parallel axes, with no reduce axis; the cache stage is at
\* root, and stays there until compute_at is called on it; the value of every
\* element of T is what it was; the other stages are as they were.
C26_CacheWrite ==
    [][/\ last' = "cache_write" =>
            \E name \in Cacheable(sched), sc \in MemoryScopes :
               LET cn == CacheName(name, sc)
               IN  /\ cn \notin StageNames(sched)
                   /\ StageNames(sched') = StageNames(sched) \cup {cn}
                   /\ Len(sched'.list) = Len(sched.list) + 1
                   /\ sched'.op[cn] = sched.op[name]
                   /\ sched'.st[cn] = sched.st[name]
                   /\ sched'.op[name].body = "copy"
                   /\ sched'.op[name].reads = <<Tensor(cn, 0)>>
                   /\ \A v \in 1..Len(sched'.st[name].ivs) :
                         sched'.st[name].ivs[v].kind = "DataPar"
                   /\ sched'.st[name].ivs
                         = SelectSeq(sched.st[name].ivs, LAMBDA iv : iv.kind = "DataPar")
                   /\ sched'.st[name].leaves = [k \in 1..Len(sched'.st[name].ivs) |-> k]
                   /\ sched'.loc[cn] = RootLoc
                   /\ sched'.scope[cn] = sc
                   /\ sched'.loc[name] = sched.loc[name]
                   /\ \A e \in Elements(sched.op[name], graph.shape) :
                         Value(sched', graph.shape, Tensor(name, 0), e)
                            = Value(sched, graph.shape, Tensor(name, 0), e)
                   /\ \A x \in StageNames(sched) \ {name} :
                         /\ sched'.op[x] = sched.op[x]
                         /\ sched'.st[x] = sched.st[x]
                         /\ sched'.loc[x] = sched.loc[x]
                         /\ sched'.scope[x] = sched.scope[x]
       /\ \A cn \in CacheNames \cap StageNames(sched) \cap StageNames(sched') :
             (sched.loc[cn] = RootLoc /\ last' # "compute_at") => sched'.loc[cn] = RootLoc]_vars

\* The reduction D given a cache stage, which holds the reduce axis, and the
\* cache stage then attached to a leaf of D.
C26_Witness ==
    /\ "D" \in StageNames(sched)
    /\ sched.op["D"].body = "copy"
    /\ \E cn \in CacheNames \cap StageNames(sched) :
          /\ sched.op[cn].body = "D"
          /\ \E v \in 1..Len(sched.st[cn].ivs) : sched.st[cn].ivs[v].kind = "CommReduce"
          /\ sched.loc[cn].kind = "at"
          /\ sched.loc[cn].stage = "D"

\* Output tensors of the op of stage name.
Outputs(s, name) == {Tensor(name, k) : k \in 0..(s.op[name].nout - 1)}

\* C27: the outputs of the two-output op B share one stage and one nest: the
\* schedule indexed by either output gives the same stage and compute location;
\* when B is at root every iteration of its nest stores each output exactly once,
\* in B's own nest; when B has been attached, through either output, the stores of
\* every output are in the nest of the stage it is attached to, and each
\* iteration of B's loops there stores each output exactly once.
C27_SharedStage ==
    ("B" \in StageNames(sched) /\ LowerError(sched) = "none") =>
        LET low   == lower(sched)
            outs  == Outputs(sched, "B")
            bst   == {w \in low.stores : w.tensor \in outs}
        IN  /\ Cardinality(outs) = 2
            /\ \A t \in outs :
                  /\ sched.st[StageOf(t)] = sched.st["B"]
                  /\ sched.loc[StageOf(t)] = sched.loc["B"]
            /\ "B" \in RootStages(sched) =>
                  /\ Cardinality({b \in 1..Len(low.order) : low.order[b] = "B"}) = 1
                  /\ \A w \in bst : w.block = BlockOf(sched, "B")
                  /\ \A it \in Executed(sched.st["B"]), t \in outs :
                        Cardinality({w \in bst : w.iter = <<it>> /\ w.tensor = t}) = 1
            /\ "B" \in PlacedAttached(sched) =>
                  /\ "B" \notin Range(low.order)
                  /\ bst # {}
                  /\ \A w \in bst :
                        /\ w.block = BlockOf(sched, sched.loc["B"].stage)
                        /\ \A t \in outs :
                              Cardinality({w2 \in bst : w2.iter = w.iter /\ w2.tensor = t}) = 1

\* B attached to the outer loop of C, which reads B's first output only.
C27_Witness ==
    /\ "C" \in StageNames(sched)
    /\ last = "compute_at"
    /\ err = "none"
    /\ "B" \in PlacedAttached(sched)
    /\ sched.loc["B"].stage = "C"
    /\ sched.loc["B"].axis = sched.st["C"].leaves[1]
    /\ Tensor("B", 1) \notin ReadTensors(sched, "C")
    /\ \E w \in lower(sched).stores : w.tensor = Tensor("B", 1) /\ w.block = BlockOf(sched, "C")

\* Stage x is attached to stage y, directly or through at most n further
\* attachments.
RECURSIVE AttachedWithin(_, _, _, _)
AttachedWithin(s, x, y, n) ==
    /\ n > 0
    /\ x \in StageNames(s)
    /\ s.loc[x].kind = "at"
    /\ \/ s.loc[x].stage = y
       \/ AttachedWithin(s, s.loc[x].stage, y, n - 1)

====
